---------------------------- MODULE Spec2Model ----------------------------
(***************************************************************************)
(* Model of golden_pages_scraper.py: the three-phase driver main() and the *)
(* functions it calls (get_html_content, extract_links_from_search,        *)
(* scrape_business_page).                                                  *)
(*                                                                         *)
(* Strings are sequences of tokens (a token is a character or an atomic    *)
(* fragment such as "mailto:"), so that split, strip and replace are       *)
(* computed and not assumed.  A parsed document is a record of the         *)
(* elements the selectors of the source look for.  An exception that       *)
(* leaves main() ends the run in pc = "crashed" with its type in exc.      *)
(***************************************************************************)
EXTENDS Integers, Sequences, FiniteSets, Bags

VARIABLES
    pc,                       \* position of main(): phase1, phase2, phase3, done, crashed
    exc,                      \* type of the exception that left main(), or "none"
    page_num,                 \* loop variable of Phase 1
    all_business_links_set,   \* the set of Phase 1, as a bag of dict-item tuples
    all_business_links,       \* the list built from the set
    idx,                      \* number of entries of all_business_links Phase 2 has taken
    detail_soup,              \* soup of the last call of scrape_business_page
    details,                  \* details of the last iteration of Phase 2
    all_scraped_data,         \* the output collection
    index_log,                \* history: requests of index pages, in order
    detail_log,               \* history: requests of detail pages, in order
    duplicates_seen,          \* history: set.add was called with an element already in the set
    json_writes               \* history: attempts to write golden_pages_data.json

vars == <<pc, exc, page_num, all_business_links_set, all_business_links, idx,
          detail_soup, details, all_scraped_data, index_log, detail_log,
          duplicates_seen, json_writes>>

-----------------------------------------------------------------------------
(* Bounds.  The source runs Phase 1 with MAX_PAGES = 95 (line 180); the    *)
(* model runs the same loop with a small ceiling.                          *)
MAX_PAGES == 3
MaxListings == 2          \* listing containers on one index page

(* Program constants *)
HTTP_OK == 200
HTTP_ERROR_FROM == 400    \* raise_for_status raises for 4xx and 5xx

NOT_FOUND == <<"Not found">>
BASE_URL_PATTERN == <<"https://www.goldenpages.ie/q/business/advanced/what/plumbers/">>
HOST == <<"https://www.goldenpages.ie">>
JSON_FILE_NAME == "golden_pages_data.json"

-----------------------------------------------------------------------------
(* Python string operations on token sequences *)

Digit == <<"0", "1", "2", "3", "4", "5", "6", "7", "8", "9">>

RECURSIVE Str(_)
Str(n) == IF n < 10 THEN <<Digit[n + 1]>>
          ELSE Str(n \div 10) \o <<Digit[(n % 10) + 1]>>

IsSpace(t) == t = " "

RECURSIVE LStrip(_)
LStrip(s) == IF s # <<>> /\ IsSpace(Head(s)) THEN LStrip(Tail(s)) ELSE s

RECURSIVE RStrip(_)
RStrip(s) == IF s # <<>> /\ IsSpace(s[Len(s)])
             THEN RStrip(SubSeq(s, 1, Len(s) - 1)) ELSE s

Strip(s) == RStrip(LStrip(s))

(* text.split(sep, 1): the whole text when sep does not occur, else the   *)
(* part before the first sep and the part after it.                       *)
SplitOnce(s, sep) ==
    LET hits == {i \in 1..Len(s) : s[i] = sep}
    IN  IF hits = {} THEN <<s>>
        ELSE LET i == CHOOSE j \in hits : \A k \in hits : j <= k
             IN  <<SubSeq(s, 1, i - 1), SubSeq(s, i + 1, Len(s))>>

(* href.replace(old, ''), old being one token *)
Remove(s, old) == SelectSeq(s, LAMBDA t : t # old)

-----------------------------------------------------------------------------
(* Elements of a parsed document *)

None == [found |-> FALSE, has_href |-> FALSE, href |-> <<>>]
Tag(href) == [found |-> TRUE, has_href |-> TRUE, href |-> href]
TagNoHref == [found |-> TRUE, has_href |-> FALSE, href |-> <<>>]

NoIcon == [found |-> FALSE, next_sibling |-> None]
Icon(sibling) == [found |-> TRUE, next_sibling |-> sibling]

NoSoup == [fetched |-> FALSE]

(* Result of a call: a value, or the exception it raised *)
Return(v) == [raised |-> "none", value |-> v]
Raise(e) == [raised |-> e, value |-> <<>>]

-----------------------------------------------------------------------------
(* get_html_content: a transport error (status 0: no response) or a 4xx/  *)
(* 5xx status is a RequestException, caught, and None is returned.         *)
get_html_content(response) ==
    IF response.status = 0 \/ response.status >= HTTP_ERROR_FROM
    THEN NoSoup
    ELSE response.body

-----------------------------------------------------------------------------
(* Listing containers of an index page: whether the h3.listing_title is   *)
(* there, the <a> inside it, and the text of that <a>.                    *)
Container(h3, a, text) == [listing_title |-> h3, a |-> a, text |-> text]

Containers ==
    { Container(FALSE, None, <<>>),
      Container(TRUE, None, <<>>),
      Container(TRUE, TagNoHref, <<"1", ".", "A">>),
      Container(TRUE, Tag(<<>>), <<"A">>),
      Container(TRUE, Tag(<<"/a">>), <<"1", ".", "A">>),
      Container(TRUE, Tag(<<"/a">>), <<"2", ".", " ", "A", " ">>),
      Container(TRUE, Tag(<<"/a">>), <<"A">>),
      Container(TRUE, Tag(<<"/b">>), <<"1", ".", "A">>),
      Container(TRUE, Tag(<<"/a">>), <<"3", ".", "B", ".", "C">>) }

SeqsUpTo(S, n) == UNION {[1..k -> S] : k \in 0..n}

IndexDocs == {[fetched |-> TRUE, listings |-> l] : l \in SeqsUpTo(Containers, MaxListings)}

IndexResponses ==
    {[status |-> HTTP_OK, body |-> d] : d \in IndexDocs}
    \cup {[status |-> s, body |-> NoSoup] : s \in {0, 404}}

(* One iteration of the loop of extract_links_from_search (lines 58-68)   *)
ListingLink(listing) ==
    IF listing.listing_title /\ listing.a.found
    THEN IF listing.a.has_href THEN Return(listing.a.href) ELSE Raise("KeyError")
    ELSE Return(<<>>)

ListingName(listing) ==
    IF listing.listing_title /\ listing.a.found
    THEN SplitOnce(listing.text, ".")
    ELSE <<"Name not found">>

RECURSIVE ExtractFrom(_, _)
ExtractFrom(listings, businesses) ==
    IF listings = <<>> THEN Return(businesses)
    ELSE LET listing == Head(listings)
             link == ListingLink(listing)
             name == ListingName(listing)
         IN  IF link.raised # "none" THEN link
             ELSE IF link.value = <<>> THEN ExtractFrom(Tail(listings), businesses)
             ELSE IF Len(name) < 2 THEN Raise("IndexError")
             ELSE ExtractFrom(Tail(listings),
                      Append(businesses, [name |-> Strip(name[2]), link |-> link.value]))

extract_links_from_search(soup) ==
    IF soup.listings = <<>> THEN Return(<<>>)
    ELSE ExtractFrom(soup.listings, <<>>)

-----------------------------------------------------------------------------
(* Detail pages: whether the contact-info div is there, and the elements  *)
(* the selectors of scrape_business_page look for.                        *)
WEBSITE == <<"http://w">>

WebsiteAnchors == {None, Tag(WEBSITE), Tag(NOT_FOUND)}
WebsiteIcons == {NoIcon, Icon(None), Icon(Tag(WEBSITE))}
EmailAnchors == {None, TagNoHref, Tag(<<"mailto:", "a@b", " ">>)}
EmailIcons == {NoIcon, Icon(Tag(<<" ", "mailto:", "a@b">>))}

DetailDocs ==
    {[fetched |-> TRUE, contact |-> c, yext_homepage |-> yh, icon_website |-> iw,
      yext_email |-> ye, icon_email |-> ie] :
        c \in BOOLEAN, yh \in WebsiteAnchors, iw \in WebsiteIcons,
        ye \in EmailAnchors, ie \in EmailIcons}

DetailResponses ==
    {[status |-> HTTP_OK, body |-> d] : d \in DetailDocs}
    \cup {[status |-> s, body |-> NoSoup] : s \in {0, 404}}

(* lines 101-115: the website anchor, by class and then by icon; the      *)
(* function returns early when neither the anchor nor the icon is there.  *)
FindWebsite(info) ==
    IF info.yext_homepage.found
    THEN [returns |-> FALSE, element |-> info.yext_homepage]
    ELSE IF info.icon_website.found
         THEN [returns |-> FALSE, element |-> info.icon_website.next_sibling]
         ELSE [returns |-> TRUE, element |-> None]

(* lines 119-130: the email anchor, by class and then by icon *)
FindEmail(info) ==
    IF info.yext_email.found THEN info.yext_email
    ELSE IF info.icon_email.found THEN info.icon_email.next_sibling
    ELSE None

(* lines 133-138, with what subscripting None or a missing attribute raises *)
CommitWebsiteAlone(d, website_link_element, email_link_element) ==
    IF email_link_element.found
    THEN IF ~website_link_element.found THEN Raise("TypeError")
         ELSE IF ~website_link_element.has_href THEN Raise("KeyError")
         ELSE IF ~email_link_element.has_href THEN Raise("KeyError")
         ELSE Return([d EXCEPT !.website = website_link_element.href,
                               !.email = Strip(Remove(email_link_element.href, "mailto:"))])
    ELSE IF website_link_element.found /\ website_link_element.has_href
         THEN Return([d EXCEPT !.website = website_link_element.href])
         ELSE Return(d)

CommitFields(d, website_link_element, email_link_element) ==
    IF email_link_element.found
    THEN IF ~website_link_element.found THEN Raise("TypeError")
         ELSE IF ~website_link_element.has_href THEN Raise("KeyError")
         ELSE IF ~email_link_element.has_href THEN Raise("KeyError")
         ELSE Return([d EXCEPT !.website = website_link_element.href,
                               !.email = Strip(Remove(email_link_element.href, "mailto:"))])
    ELSE Return(d)

(* lines 100-138: the body of "if business_contact_info" *)
ScrapeContactInfo(d, info) ==
    LET website == FindWebsite(info)
    IN  IF website.returns THEN Return(d)
        ELSE CommitFields(d, website.element, FindEmail(info))

NewDetails(url) == [link |-> url, email |-> NOT_FOUND, website |-> NOT_FOUND]

ScrapeWithoutNoneCheck(url, soup) ==
    IF ~soup.fetched THEN Raise("AttributeError")
    ELSE IF soup.contact THEN ScrapeContactInfo(NewDetails(url), soup)
    ELSE Return(NewDetails(url))

ScrapeWholePage(url, soup) ==
    IF ~soup.fetched THEN Return(NewDetails(url))
    ELSE ScrapeContactInfo(NewDetails(url), soup)

scrape_business_page(url, soup) ==
    IF ~soup.fetched THEN Return(NewDetails(url))
    ELSE IF soup.contact THEN ScrapeContactInfo(NewDetails(url), soup)
    ELSE Return(NewDetails(url))

-----------------------------------------------------------------------------
(* main() *)

(* tuple(link_data.items()) and dict(link_tuple) *)
DictItems(d) == << <<"name", d.name>>, <<"link", d.link>> >>
DictOf(t) == [name |-> t[1][2], link |-> t[2][2]]

(* set.add *)
SetAddAgain(s, e) == s (+) SetToBag({e})

SetAdd(s, e) == IF BagIn(e, s) THEN s ELSE s (+) SetToBag({e})

RECURSIVE AddLinks(_, _)
AddLinks(s, links_on_page) ==
    IF links_on_page = <<>> THEN s
    ELSE AddLinks(SetAdd(s, DictItems(Head(links_on_page))), Tail(links_on_page))

(* whether some link of the page is added a second time: it is in the set *)
(* already, or it occurs twice on the page                                *)
AddsDuplicate(s, links_on_page) ==
    \/ \E i \in 1..Len(links_on_page) : BagIn(DictItems(links_on_page[i]), s)
    \/ \E i, j \in 1..Len(links_on_page) :
          i # j /\ links_on_page[i] = links_on_page[j]

(* line 216: the list of the set's elements, in the set's iteration order, *)
(* which is any order.                                                     *)
ListsOf(s) ==
    LET elems == BagToSet(s)
        n == BagCardinality(s)
    IN  IF n = 0 THEN {<<>>}
        ELSE {l \in [1..n -> {DictOf(t) : t \in elems}] :
                \A t \in elems :
                    Cardinality({i \in 1..n : l[i] = DictOf(t)}) = CopiesIn(t, s)}

CurrentUrl(p) ==
    IF p > 1 THEN BASE_URL_PATTERN \o Str(p) \o <<"/">> ELSE BASE_URL_PATTERN

FullUrl(business) == HOST \o business.link

(* line 200 *)
NeverStops(links_on_page) == FALSE

NoMoreListings(links_on_page) == links_on_page = <<>>

(* line 240 *)
KeepAll(d) == TRUE

KeepListing(d) == d.website # NOT_FOUND

(* line 256 *)
AlwaysWrite(data) == TRUE

HasData(data) == data # <<>>

NoDetails == [link |-> <<>>, email |-> <<>>, website |-> <<>>]

Init ==
    /\ pc = "phase1"
    /\ exc = "none"
    /\ page_num = 1
    /\ all_business_links_set = EmptyBag
    /\ all_business_links = <<>>
    /\ idx = 0
    /\ detail_soup = NoSoup
    /\ details = NoDetails
    /\ all_scraped_data = <<>>
    /\ index_log = <<>>
    /\ detail_log = <<>>
    /\ duplicates_seen = FALSE
    /\ json_writes = <<>>

IndexRequest(response) ==
    [page |-> page_num, url |-> CurrentUrl(page_num),
     fetched |-> get_html_content(response).fetched,
     has_listings |-> get_html_content(response).fetched
                      /\ response.body.listings # <<>>]

(* lines 215-222: the end of Phase 1, with the set as it is then *)
EndPhase1(links_set) ==
    /\ all_business_links_set' = links_set
    /\ all_business_links' \in ListsOf(links_set)
    /\ pc' = IF all_business_links' = <<>> THEN "done" ELSE "phase2"
    /\ UNCHANGED <<exc, page_num>>

(* lines 189-194 and 211-213: the fetch of an index page fails *)
IndexFetchRetried ==
    /\ pc = "phase1"
    /\ \E response \in IndexResponses :
         /\ ~get_html_content(response).fetched
         /\ index_log' = Append(index_log, IndexRequest(response))
    /\ UNCHANGED <<pc, exc, page_num, all_business_links_set, all_business_links,
                   idx, detail_soup, details, all_scraped_data, detail_log,
                   duplicates_seen, json_writes>>

IndexFetchSkipped ==
    /\ pc = "phase1"
    /\ \E response \in IndexResponses :
         /\ ~get_html_content(response).fetched
         /\ index_log' = Append(index_log, IndexRequest(response))
    /\ IF page_num = MAX_PAGES
       THEN EndPhase1(all_business_links_set)
       ELSE /\ page_num' = page_num + 1
            /\ UNCHANGED <<pc, exc, all_business_links_set, all_business_links>>
    /\ UNCHANGED <<idx, detail_soup, details, all_scraped_data, detail_log,
                   duplicates_seen, json_writes>>

IndexFetchFailed ==
    /\ pc = "phase1"
    /\ \E response \in IndexResponses :
         /\ ~get_html_content(response).fetched
         /\ index_log' = Append(index_log, IndexRequest(response))
    /\ EndPhase1(all_business_links_set)
    /\ UNCHANGED <<idx, detail_soup, details, all_scraped_data, detail_log,
                   duplicates_seen, json_writes>>

(* lines 189-210: an index page is fetched *)
IndexFetched ==
    /\ pc = "phase1"
    /\ \E response \in IndexResponses :
         LET soup == get_html_content(response)
             links_on_page == extract_links_from_search(soup)
         IN  /\ soup.fetched
             /\ index_log' = Append(index_log, IndexRequest(response))
             /\ IF links_on_page.raised # "none"
                THEN /\ pc' = "crashed"
                     /\ exc' = links_on_page.raised
                     /\ UNCHANGED <<page_num, all_business_links_set,
                                    all_business_links, duplicates_seen>>
                ELSE IF NoMoreListings(links_on_page.value)
                THEN /\ EndPhase1(all_business_links_set)
                     /\ UNCHANGED duplicates_seen
                ELSE /\ duplicates_seen' =
                            (duplicates_seen
                             \/ AddsDuplicate(all_business_links_set, links_on_page.value))
                     /\ IF page_num = MAX_PAGES
                        THEN EndPhase1(AddLinks(all_business_links_set,
                                                links_on_page.value))
                        ELSE /\ all_business_links_set' =
                                    AddLinks(all_business_links_set, links_on_page.value)
                             /\ page_num' = page_num + 1
                             /\ UNCHANGED <<pc, exc, all_business_links>>
    /\ UNCHANGED <<idx, detail_soup, details, all_scraped_data, detail_log,
                   json_writes>>

(* lines 230-252: one iteration of Phase 2 *)
DetailPage ==
    /\ pc = "phase2"
    /\ \E response \in DetailResponses :
         LET business == all_business_links[idx + 1]
             full_url == FullUrl(business)
             soup == get_html_content(response)
             result == scrape_business_page(full_url, soup)
         IN  /\ idx' = idx + 1
             /\ detail_soup' = soup
             /\ detail_log' = Append(detail_log,
                    [entry |-> idx + 1, url |-> full_url, fetched |-> soup.fetched])
             /\ IF result.raised # "none"
                THEN /\ pc' = "crashed"
                     /\ exc' = result.raised
                     /\ UNCHANGED <<details, all_scraped_data>>
                ELSE /\ details' = result.value
                     /\ all_scraped_data' =
                            IF KeepListing(result.value)
                            THEN Append(all_scraped_data,
                                        [name |-> business.name,
                                         link |-> result.value.link,
                                         email |-> result.value.email,
                                         website |-> result.value.website])
                            ELSE all_scraped_data
                     /\ pc' = IF idx + 1 = Len(all_business_links)
                              THEN "phase3" ELSE "phase2"
                     /\ exc' = exc
    /\ UNCHANGED <<page_num, all_business_links_set, all_business_links,
                   index_log, duplicates_seen, json_writes>>

(* lines 254-270: Phase 3; io_ok is whether open and json.dump succeed *)
SaveJson ==
    /\ pc = "phase3"
    /\ \E io_ok \in BOOLEAN :
         json_writes' =
            IF HasData(all_scraped_data)
            THEN Append(json_writes, [file |-> JSON_FILE_NAME,
                                      data |-> all_scraped_data, ok |-> io_ok])
            ELSE json_writes
    /\ pc' = "done"
    /\ UNCHANGED <<exc, page_num, all_business_links_set, all_business_links,
                   idx, detail_soup, details, all_scraped_data, index_log,
                   detail_log, duplicates_seen>>

Next == IndexFetchFailed \/ IndexFetched \/ DetailPage \/ SaveJson

Spec == Init /\ [][Next]_vars

-----------------------------------------------------------------------------
(* Vocabulary of the properties *)

Last(log) == log[Len(log)]

(* the record main() appends for entry i of all_business_links *)
HasRecordOf(i) ==
    \E k \in 1..Len(all_scraped_data) :
        /\ all_scraped_data[k].name = all_business_links[i].name
        /\ all_scraped_data[k].link = FullUrl(all_business_links[i])

(* all_business_links lists the elements of the set s, each as often as s holds it *)
ListsTheSet(l, s) ==
    /\ Len(l) = BagCardinality(s)
    /\ \A t \in BagToSet(s) :
         Cardinality({i \in 1..Len(l) : DictItems(l[i]) = t}) = CopiesIn(t, s)

(* the anchors of a detail page, as the page has them *)
WebsiteAnchorIn(soup) ==
    \/ soup.yext_homepage.found
    \/ soup.icon_website.found /\ soup.icon_website.next_sibling.found

EmailAnchorIn(soup) ==
    \/ soup.yext_email.found
    \/ soup.icon_email.found /\ soup.icon_email.next_sibling.found

Phase1Over == pc \in {"phase2", "phase3", "done"} \/ detail_log # <<>>

Phase2Over == pc \in {"phase3", "done"} /\ all_business_links # <<>>

-----------------------------------------------------------------------------
(* C1: the output collection all_scraped_data never holds a record whose   *)
(* website is the sentinel "Not found".                                    *)
C1_NoSentinelInOutput ==
    \A k \in 1..Len(all_scraped_data) : all_scraped_data[k].website # NOT_FOUND

(* a finished run that kept one listing and skipped another, the website   *)
(* anchor of the last page carrying the text of the sentinel               *)
C1_Witness ==
    /\ pc = "done"
    /\ all_scraped_data # <<>>
    /\ Len(all_scraped_data) < idx
    /\ detail_soup.fetched /\ detail_soup.contact
    /\ detail_soup.yext_homepage = Tag(NOT_FOUND)
    /\ EmailAnchorIn(detail_soup)

(* C2: an index page k that is fetched and has no listing container ends   *)
(* Phase 1 without error: it is the last index page requested, the pages   *)
(* requested are 1..k, the set is left as pages 1..k-1 made it and is      *)
(* handed to Phase 2.                                                      *)
C2_EmptyPageIsLast ==
    \A i \in 1..Len(index_log) :
        /\ index_log[i].page = i
        /\ (index_log[i].fetched /\ ~index_log[i].has_listings)
              => (i = Len(index_log) /\ pc # "phase1")

C2_EmptyPageStep ==
    (/\ pc = "phase1"
     /\ index_log' # index_log
     /\ Last(index_log').fetched
     /\ ~Last(index_log').has_listings)
    => /\ exc' = "none"
       /\ all_business_links_set' = all_business_links_set
       /\ ListsTheSet(all_business_links', all_business_links_set)
       /\ pc' = IF all_business_links_set = EmptyBag THEN "done" ELSE "phase2"

(* C2: in every state an empty index page is the last one requested, and  *)
(* the step that fetches it ends Phase 1 without error, the set kept.      *)
C2_EmptyPageHalts == []C2_EmptyPageIsLast /\ [][C2_EmptyPageStep]_vars

(* page 1 has listings, page 2 has none, the ceiling is not reached, and   *)
(* Phase 2 starts with the links of page 1                                 *)
C2_Witness ==
    /\ Len(index_log) = 2
    /\ Len(index_log) < MAX_PAGES
    /\ index_log[1].has_listings
    /\ index_log[2].fetched /\ ~index_log[2].has_listings
    /\ pc = "phase2"
    /\ all_business_links # <<>>

(* C3: a fetch failure on index page k ends Phase 1: it is the last index  *)
(* page requested, nothing is raised, the set is left as pages 1..k-1 made *)
(* it, and main() returns before Phase 2 exactly when that set is empty.   *)
C3_FailedPageIsLast ==
    \A i \in 1..Len(index_log) :
        ~index_log[i].fetched => (i = Len(index_log) /\ pc # "phase1")

C3_FailedPageStep ==
    (/\ pc = "phase1"
     /\ index_log' # index_log
     /\ ~Last(index_log').fetched)
    => /\ exc' = "none"
       /\ all_business_links_set' = all_business_links_set
       /\ ListsTheSet(all_business_links', all_business_links_set)
       /\ pc' = IF all_business_links_set = EmptyBag THEN "done" ELSE "phase2"
       /\ detail_log' = <<>> /\ json_writes' = <<>>

(* C3: in every state a failed index page is the last one requested, and  *)
(* the step that fails ends Phase 1 without raising, the set kept.         *)
C3_FetchFailureEndsPagination == []C3_FailedPageIsLast /\ [][C3_FailedPageStep]_vars

(* page 2 fails below the ceiling and Phase 2 starts with the links of page 1 *)
C3_Witness ==
    /\ Len(index_log) = 2
    /\ Len(index_log) < MAX_PAGES
    /\ ~index_log[2].fetched
    /\ pc = "phase2"
    /\ all_business_links # <<>>

(* C4: the link set holds every (name, link) once, the list of Phase 2 has *)
(* one entry per element of the set, and Phase 2 takes the entries of that *)
(* list one after the other, all of them when it runs to its end.          *)
C4_NoDuplicateLinks ==
    /\ \A t \in BagToSet(all_business_links_set) :
         CopiesIn(t, all_business_links_set) = 1
    /\ Phase1Over =>
         /\ ListsTheSet(all_business_links, all_business_links_set)
         /\ \A i, j \in 1..Len(all_business_links) :
              (/\ all_business_links[i].name = all_business_links[j].name
               /\ all_business_links[i].link = all_business_links[j].link) => i = j
    /\ \A i \in 1..Len(detail_log) :
         /\ detail_log[i].entry = i
         /\ i <= Len(all_business_links)
         /\ detail_log[i].url = FullUrl(all_business_links[i])
    /\ Phase2Over => Len(detail_log) = Cardinality(BagToSet(all_business_links_set))

(* a link was met a second time, two distinct links were kept and Phase 2  *)
(* has taken both                                                          *)
C4_Witness ==
    /\ duplicates_seen
    /\ Cardinality(BagToSet(all_business_links_set)) = 2
    /\ Phase2Over
    /\ Len(detail_log) = 2

(* C5: a detail page that cannot be fetched gives the record (link,        *)
(* "Not found", "Not found"), raises nothing and adds no record, and the   *)
(* loop of Phase 2 goes on while entries are left, to the last entry.      *)
C5_DetailFailureIsLocal ==
    /\ (idx > 0 /\ ~detail_soup.fetched) =>
          /\ exc = "none"
          /\ details = [link |-> FullUrl(all_business_links[idx]),
                        email |-> NOT_FOUND, website |-> NOT_FOUND]
    /\ \A i \in 1..Len(detail_log) :
          ~detail_log[i].fetched =>
             /\ ~HasRecordOf(i)
             /\ i < Len(detail_log) \/ exc = "none"
             /\ (i < Len(all_business_links) /\ i = Len(detail_log)) => pc = "phase2"
             /\ i = Len(all_business_links) => pc \in {"phase3", "done"}
    /\ Phase2Over => Len(detail_log) = Len(all_business_links)

(* the first detail page failed, a later listing was processed and kept *)
C5_Witness ==
    /\ pc = "done"
    /\ Len(detail_log) >= 2
    /\ ~detail_log[1].fetched
    /\ all_scraped_data # <<>>

(* C6: no document that is fetched makes extract_links_from_search or      *)
(* scrape_business_page raise: no exception leaves main().                 *)
C6_NeverRaises == exc = "none" /\ pc # "crashed"

(* C7: scrape_business_page commits the website only together with the     *)
(* email: a page with a website anchor and no email anchor gives website = *)
(* "Not found" and no record in the output.                                *)
C7_WebsiteGatedOnEmail ==
    (idx > 0 /\ detail_soup.fetched) =>
        /\ (detail_soup.contact /\ WebsiteAnchorIn(detail_soup)
              /\ ~EmailAnchorIn(detail_soup)) =>
              /\ exc = "none"
              /\ details.link = FullUrl(all_business_links[idx])
              /\ details.website = NOT_FOUND
              /\ details.email = NOT_FOUND
              /\ ~HasRecordOf(idx)
        /\ (exc = "none" /\ details.website # NOT_FOUND) =>
              (detail_soup.contact /\ EmailAnchorIn(detail_soup))

(* a website anchor by class, no email anchor and no email icon *)
C7_Witness ==
    /\ idx > 0 /\ detail_soup.fetched /\ detail_soup.contact
    /\ detail_soup.yext_homepage = Tag(WEBSITE)
    /\ ~EmailAnchorIn(detail_soup)
    /\ pc = "done"

(* C8: a detail page that is fetched and has no contact-info container     *)
(* gives email = website = "Not found", whatever anchors it has.           *)
C8_NoContactNotFound ==
    (idx > 0 /\ detail_soup.fetched /\ ~detail_soup.contact) =>
        /\ exc = "none"
        /\ details = [link |-> FullUrl(all_business_links[idx]),
                      email |-> NOT_FOUND, website |-> NOT_FOUND]

(* no container, but a website anchor and an email anchor on the page *)
C8_Witness ==
    /\ idx > 0 /\ detail_soup.fetched /\ ~detail_soup.contact
    /\ detail_soup.yext_homepage = Tag(WEBSITE)
    /\ detail_soup.yext_email.found /\ detail_soup.yext_email.has_href
    /\ exc = "none"

(* C9: no request is repeated: an index page number is requested at most   *)
(* once, an entry of the list at most once, and exactly once when Phase 2  *)
(* has run to its end, failed requests included.                           *)
C9_NoRetries ==
    /\ Len(index_log) <= MAX_PAGES
    /\ \A i, j \in 1..Len(index_log) :
         (index_log[i].page = index_log[j].page \/ index_log[i].url = index_log[j].url)
            => i = j
    /\ \A i, j \in 1..Len(detail_log) :
         detail_log[i].entry = detail_log[j].entry => i = j
    /\ \A i \in 1..Len(detail_log) : detail_log[i].entry \in 1..Len(all_business_links)
    /\ Phase2Over =>
         \A e \in 1..Len(all_business_links) :
            Cardinality({i \in 1..Len(detail_log) : detail_log[i].entry = e}) = 1

(* a run to its end in which an index page and a detail page failed *)
C9_Witness ==
    /\ pc = "done"
    /\ \E i \in 1..Len(index_log) : ~index_log[i].fetched
    /\ \E i \in 1..Len(detail_log) : ~detail_log[i].fetched
    /\ Len(detail_log) >= 2

(* C10: the JSON file is written at most once, at the end of Phase 3 and   *)
(* with a non-empty output collection; a run with an empty output          *)
(* collection writes nothing.                                              *)
C10_WriteOnlyNonEmpty ==
    /\ Len(json_writes) <= 1
    /\ json_writes # <<>> =>
         /\ pc = "done"
         /\ all_scraped_data # <<>>
         /\ json_writes[1].file = JSON_FILE_NAME
         /\ json_writes[1].data = all_scraped_data
    /\ (pc = "done" /\ all_scraped_data = <<>>) => json_writes = <<>>

(* Phase 2 ran to its end and every listing was filtered out *)
C10_Witness ==
    /\ pc = "done"
    /\ idx > 0 /\ idx = Len(all_business_links)
    /\ all_scraped_data = <<>>
    /\ json_writes = <<>>

=============================================================================
